---- MODULE Spec2Model ----
(***************************************************************************)
(* drone-artifactory-docker-buildinfo: the run of Exec (src/main.go) from  *)
(* the parsing of the image reference to the end of the principal         *)
(* reconciliation, and the pure helpers it calls, each also on its own.    *)
(*                                                                         *)
(* Time is counted in whole seconds since pollCtx was created.             *)
(***************************************************************************)
EXTENDS Integers, Sequences, FiniteSets, TLC

VARIABLES
    args,        \* the Args struct Exec was called with
    pc,          \* Exec's position
    exitStatus,  \* "running", "ok" (Exec returned nil), "fail" (exit status 1),
                 \* "panic" (Go run-time panic, exit status 2)
    fs,          \* what the working directory lets Exec do with its two files
    ref,         \* parseDockerImage's result
    sanitizedURL, \* sanitizeURL's result
    files,       \* query.json and image_info.txt
    sha256,      \* the digest extracted from the search output
    ret,         \* the result of a helper called on its own
    log,         \* every subprocess launched and HTTP request sent, in order
    now,         \* seconds since pollCtx was created
    backoff,     \* pollForBuildInfo's backoff, seconds
    sleeps,      \* the durations pollForBuildInfo has slept, in order
    lastCheck,   \* what the last checkBuildInfoExists call saw and returned
    fetched,     \* the response addPrincipalToBuildInfo's GET received
    putResp,     \* the response addPrincipalToBuildInfo's PUT received
    recon        \* the Principal Reconciler's state

vars == <<args, pc, exitStatus, fs, ref, sanitizedURL, files, sha256, ret,
          log, now, backoff, sleeps, lastCheck, fetched, putResp, recon>>

----------------------------------------------------------------------------
(* Bounds of the model *)

\* longest HTTP round trip that completes, in seconds (a hung call is extra)
MaxHttpSecs == 1

(* Program constants *)

\* context.WithTimeout(ctx, 30*time.Second)
PollTimeoutSecs == 30
\* backoff := 1 * time.Second
InitialBackoff == 1
\* maxBackoff := 5 * time.Second
maxBackoff == 5
\* 2^30: JSON integer literals are kept as hi * 2^30 + lo
LoBase == 1073741824
\* 2^23: hi >= 2^23 means the literal is >= 2^53, beyond float64's exact range
HiExact == 8388608

----------------------------------------------------------------------------
(* JSON values.  Every value is a record of one shape so that values of    *)
(* different JSON types can be compared.                                   *)

NoObj == [x \in {} |-> 0]

JStr(s) == [t |-> "string", s |-> s, hi |-> 0, lo |-> 0, o |-> NoObj]
JNum(hi, lo) == [t |-> "number", s |-> "", hi |-> hi, lo |-> lo, o |-> NoObj]
JObj(o) == [t |-> "object", s |-> "", hi |-> 0, lo |-> 0, o |-> o]

\* strconv.ParseFloat(s, 64) on an integer literal below 2^54, printed back
\* by json.Marshal: exact below 2^53, round-half-to-even to a multiple of 2
\* from 2^53 on.
float64(v) ==
    IF v.hi < HiExact \/ v.lo % 2 = 0 THEN v
    ELSE IF v.lo % 4 = 1 THEN JNum(v.hi, v.lo - 1)
    ELSE IF v.lo + 1 = LoBase THEN JNum(v.hi + 1, 0)
    ELSE JNum(v.hi, v.lo + 1)

\* json.Unmarshal into interface{}: numbers become float64, strings stay,
\* objects become map[string]interface{} (one nesting level is modelled
\* below the top-level object).
decodeLeaf(v) == IF v.t = "number" THEN float64(v) ELSE v

decodeValue(v) ==
    IF v.t = "object"
    THEN JObj([k \in DOMAIN v.o |-> decodeLeaf(v.o[k])])
    ELSE decodeLeaf(v)

----------------------------------------------------------------------------
(* Args (src/main.go:19-41): the fields Exec reads.  "" is the unset value.  *)

ArgsOf(image, url, tok, user, pw, key, repoURL, sha, branch, tag, trigger) ==
    [DockerImage |-> image, URL |-> url,
     AccessToken |-> tok, Username |-> user, Password |-> pw, APIKey |-> key,
     RepoURL |-> repoURL, CommitSha |-> sha, BranchName |-> branch,
     TagName |-> tag, BuildTrigger |-> trigger,
     BuildName |-> "build-7", BuildNumber |-> "42"]

\* setAuthParams: appends the credential flags to the jfrog command line.
\* The error result is always nil; the last branch only logs.
setAuthParams(cmdArgs, a) ==
    IF a.Username # "" /\ a.Password # ""
    THEN cmdArgs \o <<  <<"--user", a.Username>>, <<"--password", a.Password>>  >>
    ELSE IF a.APIKey # "" /\ a.Username # ""
    THEN cmdArgs \o <<  <<"--user", a.Username>>, <<"--password", a.APIKey>>  >>
    ELSE IF a.AccessToken # ""
    THEN cmdArgs \o <<  <<"--access-token", a.AccessToken>>  >>
    ELSE cmdArgs

\* setAuthHeaders with the password tried before the API key
setAuthHeadersPasswordFirst(a) ==
    IF a.AccessToken # ""
    THEN [err |-> "", hdr |-> <<"Bearer", a.AccessToken>>]
    ELSE IF a.Username # "" /\ a.Password # ""
    THEN [err |-> "", hdr |-> <<"Basic", a.Username, a.Password>>]
    ELSE IF a.APIKey # "" /\ a.Username # ""
    THEN [err |-> "", hdr |-> <<"Basic", a.Username, a.APIKey>>]
    ELSE [err |-> "no authentication method provided", hdr |-> <<>>]

\* setAuthHeaders: the Authorization header put on a request, or the error.
NoAuthErr == "no authentication method provided"

setAuthHeaders(a) ==
    IF a.AccessToken # ""
    THEN [err |-> "", hdr |-> <<"Bearer", a.AccessToken>>]
    ELSE IF a.APIKey # "" /\ a.Username # ""
    THEN [err |-> "", hdr |-> <<"Basic", a.Username, a.APIKey>>]
    ELSE IF a.Username # "" /\ a.Password # ""
    THEN [err |-> "", hdr |-> <<"Basic", a.Username, a.Password>>]
    ELSE [err |-> NoAuthErr, hdr |-> <<>>]

----------------------------------------------------------------------------
(* The registry's answers.  A response body is either not JSON at all or a *)
(* top-level JSON object (the envelope).                                   *)

BuildInfoObjs ==
    { [name |-> JStr("build-7"), number |-> JStr("42")],
      [name |-> JStr("build-7"), number |-> JStr("42"),
       principal |-> JStr("old"), durationMillis |-> JNum(0, 1500)],
      [name |-> JStr("build-7"), number |-> JStr("42"),
       durationMillis |-> JNum(HiExact, 1)],
      [name |-> JStr("build-7"), number |-> JStr("43"),
       principal |-> JStr("old")],
      [name |-> JStr("build-7"), number |-> JNum(0, 42)],
      [name |-> JStr("build-7")] }

Envelopes ==
    { [buildInfo |-> JObj(o), uri |-> JStr("u")] : o \in BuildInfoObjs }
    \cup { [uri |-> JStr("u")],
           [buildInfo |-> JStr("gone"), uri |-> JStr("u")] }

NoBody == [valid |-> FALSE, v |-> NoObj]
Bodies == {NoBody} \cup { [valid |-> TRUE, v |-> e] : e \in Envelopes }

NoResp == [err |-> TRUE, status |-> 0, body |-> NoBody]
GetResponses ==
    {NoResp}
    \cup { [err |-> FALSE, status |-> 200, body |-> b] : b \in Bodies }
    \cup { [err |-> FALSE, status |-> 404, body |-> NoBody] }
PutStatuses == {200, 201, 202, 204, 500}
PutResponses ==
    {NoResp} \cup { [err |-> FALSE, status |-> st, body |-> NoBody] : st \in PutStatuses }

\* client.Do on a request carrying pollCtx, started at second t: the set of
\* ways it can end.  A call started after the deadline fails at once; a call
\* that has not answered when the deadline passes is aborted at the deadline.
roundTrips(t) ==
    IF t >= PollTimeoutSecs
    THEN { [end |-> t, aborted |-> TRUE] }
    ELSE { [end |-> t + d, aborted |-> FALSE] :
             d \in { x \in 0..MaxHttpSecs : t + x <= PollTimeoutSecs } }
         \cup { [end |-> PollTimeoutSecs, aborted |-> TRUE] }

\* json.Unmarshal(body, &map[string]interface{}): ok and the decoded map.
unmarshal(body) ==
    IF body.valid
    THEN [ok |-> TRUE, m |-> [k \in DOMAIN body.v |-> decodeValue(body.v[k])]]
    ELSE [ok |-> FALSE, m |-> NoObj]

\* m["buildInfo"].(map[string]interface{})
buildInfoOf(m) ==
    IF "buildInfo" \in DOMAIN m /\ m["buildInfo"].t = "object"
    THEN [ok |-> TRUE, o |-> m["buildInfo"].o]
    ELSE [ok |-> FALSE, o |-> NoObj]

\* checkBuildInfoExists without the comparison of buildInfo.number
checkResponseAnyNumber(resp, a) ==
    IF resp.err THEN "request failed"
    ELSE IF resp.status # 200 THEN "build info not available yet"
    ELSE IF ~unmarshal(resp.body).ok THEN "error parsing build info"
    ELSE IF ~buildInfoOf(unmarshal(resp.body).m).ok THEN "buildInfo field not found"
    ELSE ""

\* checkBuildInfoExists, after the request was sent: "" is a nil error.
checkResponse(resp, a) ==
    IF resp.err THEN "request failed"
    ELSE IF resp.status # 200 THEN "build info not available yet"
    ELSE IF ~unmarshal(resp.body).ok THEN "error parsing build info"
    ELSE IF ~buildInfoOf(unmarshal(resp.body).m).ok THEN "buildInfo field not found"
    ELSE LET o == buildInfoOf(unmarshal(resp.body).m).o IN
         IF "number" \in DOMAIN o /\ o["number"].t = "string"
            /\ o["number"].s = a.BuildNumber
         THEN ""
         ELSE "build number mismatch or missing"

\* the backoff doubling without the cap
nextBackoffUncapped(b) == b * 2

\* backoff *= 2; if backoff > maxBackoff { backoff = maxBackoff }
nextBackoff(b) == IF b * 2 > maxBackoff THEN maxBackoff ELSE b * 2

\* buildInfoObj["principal"] = principal; json.Marshal(buildInfoObj)
withPrincipal(o, principal) ==
    [k \in DOMAIN o \cup {"principal"} |->
        IF k = "principal" THEN JStr(principal) ELSE o[k]]

\* a status check that takes every 2xx
putAcceptedAny2xx(status) == status >= 200 /\ status < 300

\* the PUT's status check
putAccepted(status) == status = 200 \/ status = 204 \/ status = 201

----------------------------------------------------------------------------
(* Texts are sequences of characters (one-character strings); a word that  *)
(* holds none of '.', '/', ':' may stand as one element.                   *)

\* strings.LastIndex(s, c) + 1: 0 when c does not occur
stringsLastIndex(s, c) ==
    LET at == { i \in 1..Len(s) : s[i] = c } IN
    IF at = {} THEN 0 ELSE CHOOSE i \in at : \A j \in at : j <= i

\* strings.Index(s, sep) + 1: 0 when sep does not occur
stringsIndex(s, sep) ==
    LET at == { i \in 1..(Len(s) - Len(sep) + 1) :
                  SubSeq(s, i, i + Len(sep) - 1) = sep } IN
    IF at = {} THEN 0 ELSE CHOOSE i \in at : \A j \in at : i <= j

\* strings.Count(s, c)
stringsCount(s, c) == Cardinality({ i \in 1..Len(s) : s[i] = c })

\* strings.Split(s, sep), sep not empty
RECURSIVE stringsSplit(_, _)
stringsSplit(s, sep) ==
    LET i == stringsIndex(s, sep) IN
    IF i = 0 THEN <<s>>
    ELSE <<SubSeq(s, 1, i - 1)>> \o stringsSplit(SubSeq(s, i + Len(sep), Len(s)), sep)

\* strings.Join(parts, sep)
RECURSIVE stringsJoin(_, _)
stringsJoin(parts, sep) ==
    IF parts = <<>> THEN <<>>
    ELSE IF Len(parts) = 1 THEN parts[1]
    ELSE parts[1] \o sep \o stringsJoin(Tail(parts), sep)

Parsed(repo, imageName, imageTag) ==
    [panic |-> FALSE, err |-> "", repo |-> repo, imageName |-> imageName,
     imageTag |-> imageTag]
ParsePanic == [panic |-> TRUE, err |-> "", repo |-> <<>>, imageName |-> <<>>,
               imageTag |-> <<>>]
ParseError == [panic |-> FALSE, err |-> "invalid Docker image format",
               repo |-> <<>>, imageName |-> <<>>, imageTag |-> <<>>]

\* parseDockerImage taking one dot in the first segment for a registry host
parseDockerImageOneDot(dockerImage) ==
    LET lastColon == stringsLastIndex(dockerImage, ":") IN
    IF lastColon = 0 THEN ParsePanic
    ELSE
    LET imageTag == SubSeq(dockerImage, lastColon + 1, Len(dockerImage))
        imagePath == SubSeq(dockerImage, 1, lastColon - 1)
        pathParts == stringsSplit(imagePath, <<"/">>)
        isDomain == stringsCount(pathParts[1], ".") >= 1
    IN  IF isDomain
        THEN IF Len(pathParts) < 2 THEN ParsePanic
             ELSE Parsed(pathParts[2],
                         stringsJoin(SubSeq(pathParts, 3, Len(pathParts)), <<"/">>),
                         imageTag)
        ELSE Parsed(pathParts[1], stringsJoin(Tail(pathParts), <<"/">>), imageTag)

\* parseDockerImage (src/main.go): the two format checks only log.  Slicing
\* dockerImage[:-1] and indexing pathParts[1] of a one-element slice panic.
parseDockerImage(dockerImage) ==
    LET lastColon == stringsLastIndex(dockerImage, ":") IN
    IF lastColon = 0 THEN ParsePanic
    ELSE
    LET imageTag == SubSeq(dockerImage, lastColon + 1, Len(dockerImage))
        imagePath == SubSeq(dockerImage, 1, lastColon - 1)
        pathParts == stringsSplit(imagePath, <<"/">>)
        isDomain == stringsCount(pathParts[1], ".") >= 2
    IN  IF isDomain
        THEN IF Len(pathParts) < 2 THEN ParsePanic
             ELSE Parsed(pathParts[2],
                         stringsJoin(SubSeq(pathParts, 3, Len(pathParts)), <<"/">>),
                         imageTag)
        ELSE Parsed(pathParts[1], stringsJoin(Tail(pathParts), <<"/">>), imageTag)

\* parseDockerImage (src/unnamed/part_000): the format checks return errors
parseDockerImage0(dockerImage) ==
    LET lastColon == stringsLastIndex(dockerImage, ":") IN
    IF lastColon = 0 THEN ParseError
    ELSE
    LET imageTag == SubSeq(dockerImage, lastColon + 1, Len(dockerImage))
        imagePath == SubSeq(dockerImage, 1, lastColon - 1)
        pathParts == stringsSplit(imagePath, <<"/">>)
        isDomain == stringsCount(pathParts[1], ".") >= 2
    IN  IF Len(pathParts) < 2 THEN ParseError
        ELSE IF isDomain
        THEN Parsed(pathParts[2],
                    stringsJoin(SubSeq(pathParts, 3, Len(pathParts)), <<"/">>),
                    imageTag)
        ELSE Parsed(pathParts[1], stringsJoin(Tail(pathParts), <<"/">>), imageTag)

----------------------------------------------------------------------------
(* URLs.  A URL text is a sequence of the elements "https:" (a scheme with *)
(* its colon), "/", the words "host", "x" and "artifactory", "%" (an       *)
(* escape that is not valid) and "?q" (a query).                           *)

ParsedURL(scheme, opaque, host, path, query, omitHost) ==
    [err |-> FALSE, Scheme |-> scheme, Opaque |-> opaque, Host |-> host,
     Path |-> path, RawQuery |-> query, OmitHost |-> omitHost]
URLParseError ==
    [err |-> TRUE, Scheme |-> "", Opaque |-> <<>>, Host |-> <<>>,
     Path |-> <<>>, RawQuery |-> "", OmitHost |-> FALSE]

hasPrefix(s, prefix) ==
    Len(s) >= Len(prefix) /\ SubSeq(s, 1, Len(prefix)) = prefix

\* url.Parse: scheme, then the query is cut off, then an opaque rest, or
\* "//" authority and the path; an invalid escape in host or path is an
\* error.
urlParse(rawURL) ==
    LET scheme == IF rawURL # <<>> /\ rawURL[1] = "https:" THEN "https" ELSE ""
        rest0 == IF scheme # "" THEN Tail(rawURL) ELSE rawURL
        q == stringsIndex(rest0, <<"?q">>)
        query == IF q = 0 THEN "" ELSE "q"
        rest1 == IF q = 0 THEN rest0 ELSE SubSeq(rest0, 1, q - 1)
    IN
    IF ~hasPrefix(rest1, <<"/">>) /\ scheme # ""
    THEN ParsedURL(scheme, rest1, <<>>, <<>>, query, FALSE)
    ELSE
    LET isAuth == /\ (scheme # "" \/ ~hasPrefix(rest1, <<"/", "/", "/">>))
                  /\ hasPrefix(rest1, <<"/", "/">>)
        afterSlashes == SubSeq(rest1, 3, Len(rest1))
        cut == stringsIndex(afterSlashes, <<"/">>)
        host == IF ~isAuth THEN <<>>
                ELSE IF cut = 0 THEN afterSlashes
                ELSE SubSeq(afterSlashes, 1, cut - 1)
        path == IF ~isAuth THEN rest1
                ELSE IF cut = 0 THEN <<>>
                ELSE SubSeq(afterSlashes, cut, Len(afterSlashes))
        omitHost == ~isAuth /\ scheme # "" /\ hasPrefix(rest1, <<"/">>)
    IN  IF stringsCount(host, "%") > 0 \/ stringsCount(path, "%") > 0
        THEN URLParseError
        ELSE ParsedURL(scheme, <<>>, host, path, query, omitHost)

\* (*URL).String
urlString(u) ==
    LET schemePart == IF u.Scheme # "" THEN <<"https:">> ELSE <<>>
        hostPart ==
            IF u.Scheme # "" \/ u.Host # <<>>
            THEN IF u.OmitHost /\ u.Host = <<>> THEN <<>>
                 ELSE (IF u.Host # <<>> \/ u.Path # <<>> THEN <<"/", "/">> ELSE <<>>)
                      \o u.Host
            ELSE <<>>
        slash == IF u.Path # <<>> /\ u.Path[1] # "/" /\ u.Host # <<>>
                 THEN <<"/">> ELSE <<>>
        queryPart == IF u.RawQuery # "" THEN <<"?q">> ELSE <<>>
    IN  IF u.Opaque # <<>>
        THEN schemePart \o u.Opaque \o queryPart
        ELSE schemePart \o hostPart \o slash \o u.Path \o queryPart

Sanitized(url) == [panic |-> FALSE, err |-> "", url |-> url]
SanitizePanic == [panic |-> TRUE, err |-> "", url |-> <<>>]
SanitizeError(msg) == [panic |-> FALSE, err |-> msg, url |-> <<>>]

\* sanitizeURL cutting the path at the last "/artifactory"
sanitizeURLLastOccurrence(inputURL) ==
    LET parsedURL == urlParse(inputURL) IN
    IF parsedURL.err THEN SanitizePanic
    ELSE LET parts == stringsSplit(parsedURL.Path, <<"/", "artifactory">>)
             kept == IF Len(parts) < 2 THEN parts[1]
                     ELSE stringsJoin(SubSeq(parts, 1, Len(parts) - 1),
                                      <<"/", "artifactory">>)
         IN  Sanitized(urlString([parsedURL EXCEPT
                        !.Path = kept \o <<"/", "artifactory", "/">>]))

\* sanitizeURL (src/main.go): the three checks only log.  After a parse
\* error parsedURL is nil and reading parsedURL.Scheme panics.
sanitizeURL(inputURL) ==
    LET parsedURL == urlParse(inputURL) IN
    IF parsedURL.err THEN SanitizePanic
    ELSE LET parts == stringsSplit(parsedURL.Path, <<"/", "artifactory">>) IN
         Sanitized(urlString([parsedURL EXCEPT
                        !.Path = parts[1] \o <<"/", "artifactory", "/">>]))

\* sanitizeURL (src/unnamed/part_000): the three checks return errors
sanitizeURL0(inputURL) ==
    LET parsedURL == urlParse(inputURL) IN
    IF parsedURL.err THEN SanitizeError("invalid URL")
    ELSE IF parsedURL.Scheme = "" \/ parsedURL.Host = <<>>
    THEN SanitizeError("invalid URL")
    ELSE LET parts == stringsSplit(parsedURL.Path, <<"/", "artifactory">>) IN
         IF Len(parts) < 2 THEN SanitizeError("url does not contain '/artifactory'")
         ELSE Sanitized(urlString([parsedURL EXCEPT
                        !.Path = parts[1] \o <<"/", "artifactory", "/">>]))

----------------------------------------------------------------------------
(* The search step's output: lines of text.  A line is a sequence of the  *)
(* elements "[", "]", ",", a result record, and "w", a word that is not    *)
(* JSON.  Line ends are white space to the JSON decoder.                   *)

\* {"sha256": "abc123"} and {"sha256": "def456"}
Records == {"{abc123}", "{def456}"}
Sha256Of(rec) == IF rec = "{abc123}" THEN "abc123" ELSE "def456"

OutputLines ==
    { <<"w">>,                                  \* a banner line
      <<"[", "w", "]", "w">>,                   \* a log line, "[Info] ..."
      <<"[", "]">>,
      <<"[", "{abc123}", "]">>,
      <<"[", "{def456}", ",", "{abc123}", "]">>,
      <<"[">>, <<"{def456}">>, <<"]">>,         \* an array over several lines
      <<"[", "w">> }
MaxOutputLines == 3
SearchOutputs == UNION { [1..n -> OutputLines] : n \in 0..MaxOutputLines }

\* strings.HasPrefix(line, "[")
hasBracketPrefix(line) == line # <<>> /\ line[1] = "["

\* strings.Join(lines, "\n") as the decoder reads it
RECURSIVE joinLines(_)
joinLines(lines) ==
    IF lines = <<>> THEN <<>> ELSE lines[1] \o joinLines(Tail(lines))

\* json.Unmarshal(jsonStr, &artifacts): the Sha256 fields of the records of
\* a JSON array, or not ok
unmarshalArtifacts(jsonStr) ==
    LET n == Len(jsonStr)
        inner == SubSeq(jsonStr, 2, n - 1)
        wellFormed ==
            /\ n >= 2 /\ jsonStr[1] = "[" /\ jsonStr[n] = "]"
            /\ \/ inner = <<>>
               \/ /\ Len(inner) % 2 = 1
                  /\ \A i \in 1..Len(inner) :
                       IF i % 2 = 1 THEN inner[i] \in Records ELSE inner[i] = ","
    IN  IF ~wellFormed THEN [ok |-> FALSE, artifacts |-> <<>>]
        ELSE [ok |-> TRUE,
              artifacts |-> [k \in 1..((Len(inner) + 1) \div 2) |->
                                Sha256Of(inner[2 * k - 1])]]

\* extractSha256FromOutput taking the last record of the array
extractSha256LastRecord(output) ==
    LET starts == { i \in 1..Len(output) : hasBracketPrefix(output[i]) } IN
    IF starts = {} THEN [err |-> "could not find JSON output", sha256 |-> ""]
    ELSE LET startIndex == CHOOSE i \in starts : \A j \in starts : i <= j
             parsed == unmarshalArtifacts(joinLines(SubSeq(output, startIndex, Len(output))))
         IN  IF ~parsed.ok THEN [err |-> "error parsing JSON", sha256 |-> ""]
             ELSE IF Len(parsed.artifacts) = 0
             THEN [err |-> "no artifacts found in JFrog output", sha256 |-> ""]
             ELSE [err |-> "", sha256 |-> parsed.artifacts[Len(parsed.artifacts)]]

\* extractSha256FromOutput: the first line beginning with '[' and all lines
\* after it are parsed as a JSON array of Artifact.
extractSha256FromOutput(output) ==
    LET starts == { i \in 1..Len(output) : hasBracketPrefix(output[i]) } IN
    IF starts = {} THEN [err |-> "could not find JSON output", sha256 |-> ""]
    ELSE LET startIndex == CHOOSE i \in starts : \A j \in starts : i <= j
             parsed == unmarshalArtifacts(joinLines(SubSeq(output, startIndex, Len(output))))
         IN  IF ~parsed.ok THEN [err |-> "error parsing JSON", sha256 |-> ""]
             ELSE IF Len(parsed.artifacts) = 0
             THEN [err |-> "no artifacts found in JFrog output", sha256 |-> ""]
             ELSE [err |-> "", sha256 |-> parsed.artifacts[1]]

----------------------------------------------------------------------------
(* Exec *)

\* a subprocess launched, with whether it exited with status 0
Proc(op, cmdArgs, cmdErr) ==
    [op |-> op, argv |-> cmdArgs, ok |-> ~cmdErr, hdr |-> <<>>, body |-> NoObj]
\* an HTTP request sent
Http(op, hdr, body) ==
    [op |-> op, argv |-> <<>>, ok |-> TRUE, hdr |-> hdr, body |-> body]

NoCheck == [sent |-> FALSE, resp |-> NoResp, result |-> "none"]

Values(v) == {"", v}

\* artifactory.example.com/my-repo/my-app:1.0
GoodImage ==
    <<"artifactory", ".", "example", ".", "com", "/", "my-repo", "/", "my-app",
      ":", "1", ".", "0">>
\* https://host/artifactory
GoodURL == <<"https:", "/", "/", "host", "/", "artifactory">>

\* image references: well formed, one path segment, no colon
ExecImages ==
    { GoodImage, <<"my-app", ":", "1">>, <<"my-repo", "/", "my-app">> }
\* URLs: well formed, no "/artifactory", no scheme and host, an invalid escape
ExecURLs ==
    { GoodURL, <<"https:", "/", "/", "host", "/", "x">>,
      <<"host", "/", "artifactory">>, <<"https:", "/", "/", "host", "/", "%">> }
\* the working directory: all writes succeed, or one of os.Create("query.json"),
\* encoder.Encode, os.Create("image_info.txt"), imageFile.WriteString fails
FsConditions ==
    {"ok", "queryCreateFails", "queryEncodeFails", "imageCreateFails",
     "imageWriteFails"}
\* search outputs: nothing, a banner only, an empty result, a result after a
\* banner, a result after a log line that begins with '['
ExecOutputs ==
    { <<>>, << <<"w">> >>, << <<"w">>, <<"[", "]">> >>,
      << <<"w">>, <<"[", "{abc123}", "]">> >>,
      << <<"[", "w", "]", "w">>, <<"[", "{abc123}", "]">> >> }

NoFile == [exists |-> FALSE, content |-> <<>>]
File(content) == [exists |-> TRUE, content |-> content]
NoRef == Parsed(<<>>, <<>>, <<>>)
NoRet == [fn |-> "", in |-> <<>>, out |-> <<>>]

\* The runs checked.  With a well-formed image reference and URL and a
\* working directory that takes all writes: every combination of credentials
\* with every combination of VCS fields when no build trigger is set; with a
\* build trigger, every combination of credentials with the VCS fields all
\* unset or all set (the VCS fields are not read after ExecAddGit).  With an
\* access token and nothing else set: every image reference, URL and
\* working-directory condition.
ExecArgs ==
    { ArgsOf(GoodImage, GoodURL, tok, user, pw, key, repoURL, sha, branch, tag, "") :
        tok \in Values("tok"), user \in Values("alice"), pw \in Values("pw"),
        key \in Values("key"), repoURL \in Values("https://git/r"),
        sha \in Values("c0ffee"), branch \in Values("main"),
        tag \in Values("v1") }
    \cup
    { ArgsOf(GoodImage, GoodURL, tok, user, pw, key, vcs[1], vcs[2], vcs[3], vcs[4], "bob") :
        tok \in Values("tok"), user \in Values("alice"), pw \in Values("pw"),
        key \in Values("key"),
        vcs \in { <<"", "", "", "">>, <<"https://git/r", "c0ffee", "main", "v1">> } }
    \cup
    { ArgsOf(image, url, "tok", "", "", "", "", "", "", "", "") :
        image \in ExecImages, url \in ExecURLs }

\* everything but the inputs, as Exec finds it
Fresh ==
    /\ exitStatus = "running"
    /\ ref = NoRef
    /\ sanitizedURL = <<>>
    /\ files = [query |-> NoFile, image |-> NoFile]
    /\ sha256 = ""
    /\ log = <<>>
    /\ now = 0
    /\ backoff = InitialBackoff
    /\ sleeps = <<>>
    /\ lastCheck = NoCheck
    /\ fetched = NoResp
    /\ putResp = NoResp
    /\ recon = "Idle"

Init ==
    /\ args \in ExecArgs
    /\ fs \in FsConditions
    /\ fs # "ok" =>
         args = ArgsOf(args.DockerImage, args.URL, "tok", "", "", "", "", "", "", "", "")
    /\ pc = "parse"
    /\ ret = NoRet
    /\ Fresh

\* logrus.Fatalln, or an error returned to main: the process exits non-zero
Fatal ==
    /\ pc' = "exited"
    /\ exitStatus' = "fail"

\* Exec returns nil
ReturnNil ==
    /\ pc' = "done"
    /\ exitStatus' = "ok"

\* a Go run-time panic: the process exits with status 2
Panic ==
    /\ pc' = "exited"
    /\ exitStatus' = "panic"

\* The jfrog command lines.  An element is <<word>> or <<flag, value>>; the
\* repository argument of build-docker-create is <<"repo", text>>.
searchCmd(url) ==
    << <<"jfrog">>, <<"rt">>, <<"s">>, <<"--spec", "query.json">>, <<"--url", url>> >>
createCmd(a, repo, url) ==
    << <<"jfrog">>, <<"rt">>, <<"build-docker-create">>, <<"repo", repo>>,
       <<"--build-name", a.BuildName>>, <<"--build-number", a.BuildNumber>>,
       <<"--image-file", "image_info.txt">>, <<"--url", url>> >>
addGitCmd(a) ==
    << <<"jfrog">>, <<"rt">>, <<"build-add-git">>, <<a.BuildName>>, <<a.BuildNumber>> >>
publishCmd(a, url) ==
    << <<"jfrog">>, <<"rt">>, <<"build-publish">>, <<"--build-url">>, <<"--url", url>>,
       <<a.BuildName>>, <<a.BuildNumber>> >>

\* build-add-git only with branch and tag both set
hasVCSInfoBranchAndTag(a) ==
    a.RepoURL # "" /\ a.CommitSha # "" /\ (a.BranchName # "" /\ a.TagName # "")

hasVCSInfo(a) ==
    a.RepoURL # "" /\ a.CommitSha # "" /\ (a.BranchName # "" \/ a.TagName # "")

\* lines 78-82: parseDockerImage; its error is always nil
ExecParse ==
    /\ pc = "parse"
    /\ IF parseDockerImage(args.DockerImage).panic
       THEN Panic /\ UNCHANGED ref
       ELSE /\ ref' = parseDockerImage(args.DockerImage)
            /\ pc' = "sanitize"
            /\ UNCHANGED exitStatus
    /\ UNCHANGED <<args, fs, sanitizedURL, files, sha256, ret, log, now, backoff,
                   sleeps, lastCheck, fetched, recon, putResp>>

\* lines 84-88: sanitizeURL; its error is always nil
ExecSanitize ==
    /\ pc = "sanitize"
    /\ IF sanitizeURL(args.URL).panic
       THEN Panic /\ UNCHANGED sanitizedURL
       ELSE /\ sanitizedURL' = sanitizeURL(args.URL).url
            /\ pc' = "query"
            /\ UNCHANGED exitStatus
    /\ UNCHANGED <<args, fs, ref, files, sha256, ret, log, now, backoff,
                   sleeps, lastCheck, fetched, recon, putResp>>

\* the "items.find" object of the query
queryOf(r) ==
    [repo |-> r.repo, path |-> r.imageName \o <<"/">> \o r.imageTag,
     name |-> "manifest.json"]

\* lines 90-123: create query.json and encode the query into it
ExecQuery ==
    /\ pc = "query"
    /\ IF fs = "queryCreateFails"
       THEN Fatal /\ UNCHANGED files
       ELSE IF fs = "queryEncodeFails"
       THEN Fatal /\ files' = [files EXCEPT !.query = File(<<>>)]
       ELSE /\ files' = [files EXCEPT !.query = File(queryOf(ref))]
            /\ pc' = "search"
            /\ UNCHANGED exitStatus
    /\ UNCHANGED <<args, fs, ref, sanitizedURL, sha256, ret, log, now, backoff,
                   sleeps, lastCheck, fetched, recon, putResp>>

\* lines 125-142: run the search, extract the digest
ExecSearch ==
    /\ pc = "search"
    /\ \E cmdErr \in BOOLEAN, output \in ExecOutputs :
         /\ log' = Append(log, Proc("search",
                          setAuthParams(searchCmd(sanitizedURL), args), cmdErr))
         /\ IF cmdErr \/ extractSha256FromOutput(output).err # ""
            THEN Fatal /\ UNCHANGED sha256
            ELSE /\ sha256' = extractSha256FromOutput(output).sha256
                 /\ pc' = "create"
                 /\ UNCHANGED exitStatus
    /\ UNCHANGED <<args, fs, ref, sanitizedURL, files, ret, now, backoff,
                   sleeps, lastCheck, fetched, recon, putResp>>

\* fmt.Sprintf("%s/%s:%s@sha256:%s", repo, imageName, imageTag, sha256)
imageFileContent(r, digest) ==
    r.repo \o <<"/">> \o r.imageName \o <<":">> \o r.imageTag
           \o <<"@sha256:", digest>>

\* lines 148-158: os.Create and WriteString; both errors are only logged
writeImageFile(f, content) ==
    IF f = "imageCreateFails" THEN NoFile
    ELSE IF f = "imageWriteFails" THEN File(<<>>)
    ELSE File(content)

\* build-docker-create with its error only logged
ExecCreateErrorIgnored ==
    /\ pc = "create"
    /\ files' = [files EXCEPT
                   !.image = writeImageFile(fs, imageFileContent(ref, sha256))]
    /\ \E cmdErr \in BOOLEAN :
         log' = Append(log, Proc("create",
                   setAuthParams(createCmd(args, ref.repo, sanitizedURL), args), cmdErr))
    /\ pc' = "vcs"
    /\ UNCHANGED <<args, fs, ref, sanitizedURL, sha256, ret, exitStatus, now,
                   backoff, sleeps, lastCheck, fetched, recon, putResp>>

\* lines 144-174: write image_info.txt, run build-docker-create
ExecCreate ==
    /\ pc = "create"
    /\ files' = [files EXCEPT
                   !.image = writeImageFile(fs, imageFileContent(ref, sha256))]
    /\ \E cmdErr \in BOOLEAN :
         /\ log' = Append(log, Proc("create",
                      setAuthParams(createCmd(args, ref.repo, sanitizedURL), args), cmdErr))
         /\ IF cmdErr THEN Fatal ELSE pc' = "vcs" /\ UNCHANGED exitStatus
    /\ UNCHANGED <<args, fs, ref, sanitizedURL, sha256, ret, now, backoff,
                   sleeps, lastCheck, fetched, recon, putResp>>

\* lines 176-193: build-add-git when the VCS fields are there; its error is
\* only logged
ExecAddGit ==
    /\ pc = "vcs"
    /\ IF hasVCSInfo(args)
       THEN \E cmdErr \in BOOLEAN : log' = Append(log, Proc("vcs", addGitCmd(args), cmdErr))
       ELSE UNCHANGED log
    /\ pc' = "publish"
    /\ UNCHANGED <<args, fs, ref, sanitizedURL, files, sha256, ret,
                   exitStatus, now, backoff, sleeps, lastCheck, fetched, recon, putResp>>

\* lines 195-206: run build-publish
ExecPublish ==
    /\ pc = "publish"
    /\ \E cmdErr \in BOOLEAN :
         /\ log' = Append(log, Proc("publish", setAuthParams(publishCmd(args, sanitizedURL), args), cmdErr))
         /\ IF cmdErr THEN Fatal ELSE pc' = "trigger" /\ UNCHANGED exitStatus
    /\ UNCHANGED <<args, fs, ref, sanitizedURL, files, sha256, ret,
                   now, backoff, sleeps, lastCheck, fetched, recon, putResp>>

\* lines 208-216 and 349-364: with a build trigger, create pollCtx and enter
\* pollForBuildInfo; without one, return nil
ExecTrigger ==
    /\ pc = "trigger"
    /\ IF args.BuildTrigger # ""
       THEN /\ pc' = "poll"
            /\ recon' = "Polling"
            /\ now' = 0
            /\ backoff' = InitialBackoff
            /\ UNCHANGED exitStatus
       ELSE /\ ReturnNil
            /\ UNCHANGED <<recon, now, backoff>>
    /\ UNCHANGED <<args, fs, ref, sanitizedURL, files, sha256, ret,
                   log, sleeps, lastCheck, fetched, putResp>>

\* the poll's timeout handed on to main as Exec's error
PollTimedOutFatal ==
    /\ pc = "poll"
    /\ now >= PollTimeoutSecs
    /\ recon' = "TimedOut"
    /\ Fatal
    /\ UNCHANGED <<args, fs, ref, sanitizedURL, files, sha256, ret,
                   log, now, backoff, sleeps, lastCheck, fetched, putResp>>

\* lines 367-369 and 219-222: ctx.Done() is ready; the timeout error is
\* logged by Exec, which returns nil
PollTimedOut ==
    /\ pc = "poll"
    /\ now >= PollTimeoutSecs
    /\ recon' = "TimedOut"
    /\ ReturnNil
    /\ UNCHANGED <<args, fs, ref, sanitizedURL, files, sha256, ret,
                   log, now, backoff, sleeps, lastCheck, fetched, putResp>>

\* an attempt still begun at the deadline itself
PollAttemptAtDeadline ==
    /\ pc = "poll"
    /\ now <= PollTimeoutSecs
    /\ IF setAuthHeaders(args).err # ""
       THEN /\ lastCheck' = [sent |-> FALSE, resp |-> NoResp,
                             result |-> setAuthHeaders(args).err]
            /\ pc' = "sleep"
            /\ UNCHANGED <<log, now, recon>>
       ELSE /\ log' = Append(log, Http("GET", setAuthHeaders(args).hdr, NoObj))
            /\ \E rt \in roundTrips(now), resp \in GetResponses :
                 /\ rt.aborted => resp = NoResp
                 /\ now' = rt.end
                 /\ lastCheck' = [sent |-> TRUE, resp |-> resp,
                                  result |-> checkResponse(resp, args)]
                 /\ IF checkResponse(resp, args) = ""
                    THEN pc' = "fetch" /\ recon' = "Found"
                    ELSE pc' = "sleep" /\ UNCHANGED recon
    /\ UNCHANGED <<args, fs, ref, sanitizedURL, files, sha256, ret,
                   exitStatus, backoff, sleeps, fetched, putResp>>

\* lines 370-376 and 389-437: one checkBuildInfoExists call
PollAttempt ==
    /\ pc = "poll"
    /\ now < PollTimeoutSecs
    /\ IF setAuthHeaders(args).err # ""
       THEN /\ lastCheck' = [sent |-> FALSE, resp |-> NoResp,
                             result |-> setAuthHeaders(args).err]
            /\ pc' = "sleep"
            /\ UNCHANGED <<log, now, recon>>
       ELSE /\ log' = Append(log, Http("GET", setAuthHeaders(args).hdr, NoObj))
            /\ \E rt \in roundTrips(now), resp \in GetResponses :
                 /\ rt.aborted => resp = NoResp
                 /\ now' = rt.end
                 /\ lastCheck' = [sent |-> TRUE, resp |-> resp,
                                  result |-> checkResponse(resp, args)]
                 /\ IF checkResponse(resp, args) = ""
                    THEN pc' = "fetch" /\ recon' = "Found"
                    ELSE pc' = "sleep" /\ UNCHANGED recon
    /\ UNCHANGED <<args, fs, ref, sanitizedURL, files, sha256, ret,
                   exitStatus, backoff, sleeps, fetched, putResp>>

\* lines 376-383: time.Sleep(backoff), then the backoff doubles up to the cap
PollSleep ==
    /\ pc = "sleep"
    /\ now' = now + backoff
    /\ sleeps' = Append(sleeps, backoff)
    /\ backoff' = nextBackoff(backoff)
    /\ pc' = "poll"
    /\ UNCHANGED <<args, fs, ref, sanitizedURL, files, sha256, ret,
                   exitStatus, log, lastCheck, fetched, recon, putResp>>

\* what addPrincipalToBuildInfo makes of its GET's response: the buildInfo
\* object, or not ok
fetchedBuildInfo(resp) ==
    IF resp.err \/ resp.status # 200 \/ ~unmarshal(resp.body).ok
    THEN [ok |-> FALSE, o |-> NoObj]
    ELSE buildInfoOf(unmarshal(resp.body).m)

\* lines 439-500 and 225-230: addPrincipalToBuildInfo's GET
Fetch ==
    /\ pc = "fetch"
    /\ IF setAuthHeaders(args).err # ""
       THEN /\ recon' = "Failed"
            /\ ReturnNil
            /\ UNCHANGED <<log, now, fetched>>
       ELSE /\ log' = Append(log, Http("GET", setAuthHeaders(args).hdr, NoObj))
            /\ \E rt \in roundTrips(now), resp \in GetResponses :
                 /\ rt.aborted => resp = NoResp
                 /\ now' = rt.end
                 /\ fetched' = resp
                 /\ IF fetchedBuildInfo(resp).ok
                    THEN pc' = "put" /\ UNCHANGED <<recon, exitStatus>>
                    ELSE recon' = "Failed" /\ ReturnNil
    /\ UNCHANGED <<args, fs, ref, sanitizedURL, files, sha256, ret,
                   backoff, sleeps, lastCheck, putResp>>

\* lines 502-551 and 225-230: set principal, marshal, PUT
Put ==
    /\ pc = "put"
    /\ IF setAuthHeaders(args).err # ""
       THEN /\ recon' = "Failed"
            /\ UNCHANGED <<log, now, putResp>>
       ELSE /\ log' = Append(log, Http("PUT", setAuthHeaders(args).hdr,
                         withPrincipal(fetchedBuildInfo(fetched).o, args.BuildTrigger)))
            /\ \E rt \in roundTrips(now), resp \in PutResponses :
                 /\ rt.aborted => resp = NoResp
                 /\ now' = rt.end
                 /\ putResp' = resp
                 /\ recon' = IF ~resp.err /\ putAccepted(resp.status)
                             THEN "Done" ELSE "Failed"
    /\ ReturnNil
    /\ UNCHANGED <<args, fs, ref, sanitizedURL, files, sha256, ret,
                   backoff, sleeps, lastCheck, fetched>>

Next ==
    \/ ExecParse
    \/ ExecSanitize
    \/ ExecQuery
    \/ ExecSearch
    \/ ExecCreate
    \/ ExecAddGit
    \/ ExecPublish
    \/ ExecTrigger
    \/ PollTimedOut
    \/ PollAttempt
    \/ PollSleep
    \/ Fetch
    \/ Put

Spec == Init /\ [][Next]_vars

\* Every step is a step of the one thread of control, which runs whenever it
\* can: a subprocess and a round trip return, a sleep ends.
\* The runs checked for termination have a build trigger, the VCS fields
\* set, and an access token or no credential at all.
InitFair ==
    /\ args \in { ArgsOf(GoodImage, GoodURL, tok, "", "", "",
                          "https://git/r", "c0ffee", "main", "v1", "bob") :
                     tok \in Values("tok") }
    /\ fs = "ok"
    /\ pc = "parse"
    /\ ret = NoRet
    /\ Fresh

FairSpec == InitFair /\ [][Next]_vars /\ WF_vars(Next)

----------------------------------------------------------------------------
(* The helpers called on their own: one call on one input *)

MaxImageLen == 8
MaxPathLen == 6

\* image references: every text of the characters a . / : up to MaxImageLen
ImageTexts == UNION { [1..n -> {"a", ".", "/", ":"}] : n \in 0..MaxImageLen }

\* URLs: with or without "https:", with or without "//host", a path of up to
\* MaxPathLen elements, with or without a query
URLTexts ==
    { scheme \o authority \o path \o query :
        scheme \in { <<>>, <<"https:">> },
        authority \in { <<>>, <<"/", "/", "host">> },
        path \in UNION { [1..n -> {"/", "x", "artifactory", "%"}] : n \in 0..MaxPathLen },
        query \in { <<>>, <<"?q">> } }

InitCall(inputs) ==
    /\ args = ArgsOf(GoodImage, GoodURL, "tok", "", "", "", "", "", "", "", "")
    /\ fs = "ok"
    /\ pc = "call"
    /\ ret \in { [fn |-> "", in |-> input, out |-> <<>>] : input \in inputs }
    /\ Fresh

Return(fn, out) ==
    /\ pc = "call"
    /\ ret' = [ret EXCEPT !.fn = fn, !.out = out]
    /\ pc' = "returned"
    /\ UNCHANGED <<args, exitStatus, fs, ref, sanitizedURL, files, sha256, log,
                   now, backoff, sleeps, lastCheck, fetched, putResp, recon>>

CallParseDockerImage == Return("parseDockerImage", parseDockerImage(ret.in))
CallParseDockerImage0 == Return("parseDockerImage0", parseDockerImage0(ret.in))
CallSanitizeURL == Return("sanitizeURL", sanitizeURL(ret.in))
CallSanitizeURL0 == Return("sanitizeURL0", sanitizeURL0(ret.in))
CallExtractSha256FromOutput ==
    Return("extractSha256FromOutput", extractSha256FromOutput(ret.in))

InitParse == InitCall(ImageTexts)
NextParse == CallParseDockerImage \/ CallParseDockerImage0
SpecParse == InitParse /\ [][NextParse]_vars

InitURL == InitCall(URLTexts)
NextURL == CallSanitizeURL \/ CallSanitizeURL0
SpecURL == InitURL /\ [][NextURL]_vars

InitExtract == InitCall(SearchOutputs)
NextExtract == CallExtractSha256FromOutput
SpecExtract == InitExtract /\ [][NextExtract]_vars

----------------------------------------------------------------------------
(* Vocabulary of the properties, stated on what went over the wire *)

LogIdx == 1..Len(log)
IsHttp(e) == e.op \in {"GET", "PUT"}
GetCount == Cardinality({ i \in LogIdx : log[i].op = "GET" })
HasOp(op) == \E i \in LogIdx : log[i].op = op

\* HTTP 200, a JSON body, and in it buildInfo.number a string equal to the
\* expected build number
Matches(resp, a) ==
    /\ ~resp.err
    /\ resp.status = 200
    /\ resp.body.valid
    /\ "buildInfo" \in DOMAIN resp.body.v
    /\ resp.body.v["buildInfo"].t = "object"
    /\ "number" \in DOMAIN resp.body.v["buildInfo"].o
    /\ resp.body.v["buildInfo"].o["number"] = JStr(a.BuildNumber)

\* HTTP 200 and a JSON body holding a buildInfo object
HasBuildInfo(resp) ==
    /\ ~resp.err
    /\ resp.status = 200
    /\ resp.body.valid
    /\ "buildInfo" \in DOMAIN resp.body.v
    /\ resp.body.v["buildInfo"].t = "object"

PollSucceeded == pc \in {"fetch", "put"} \/ recon \in {"Found", "Done", "Failed"}

\* C1: pollForBuildInfo succeeds only on a response that matches; an attempt
\* that saw anything else goes to the backoff sleep and from there back to
\* the head of the loop, and the poll does not succeed on it.
C1_SuccessOnlyOnMatch ==
    /\ [](PollSucceeded => lastCheck.sent /\ Matches(lastCheck.resp, args))
    /\ [][(pc = "poll" /\ now < PollTimeoutSecs) =>
            \/ Matches(lastCheck'.resp, args) /\ lastCheck'.sent /\ pc' = "fetch"
            \/ /\ ~(lastCheck'.sent /\ Matches(lastCheck'.resp, args))
               /\ pc' = "sleep" /\ recon' = "Polling"]_vars
    /\ [][pc = "sleep" =>
            pc' = "poll" /\ recon' = "Polling" /\ Len(sleeps') = Len(sleeps) + 1]_vars

\* found after two attempts that were not yet visible
C1_Witness ==
    recon = "Found" /\ Len(sleeps) >= 2 /\ Matches(lastCheck.resp, args)

\* C2: the k-th sleep lasts 1, 2, 4, 5, 5, ... seconds: non-decreasing,
\* at least 1 and at most 5.
C2_BackoffSchedule ==
    \A k \in 1..Len(sleeps) :
        /\ sleeps[k] = (IF k = 1 THEN 1 ELSE IF k = 2 THEN 2 ELSE IF k = 3 THEN 4 ELSE 5)
        /\ sleeps[k] >= 1 /\ sleeps[k] <= 5
        /\ k > 1 => sleeps[k-1] <= sleeps[k]

C2_Witness == Len(sleeps) >= 5 /\ sleeps[5] = 5

\* C3: the timeout is reported at the deadline: no backoff sleep runs past
\* the 30th second.
C3_TimeoutAtDeadline == recon = "TimedOut" => now <= PollTimeoutSecs

\* C4: once publish has succeeded the run does not fail, and it ends with
\* Exec returning nil whatever the reconciler ended in.
C4_ReconciliationNonFatal ==
    /\ (\E i \in LogIdx : log[i].op = "publish" /\ log[i].ok) => exitStatus # "fail"
    /\ recon # "Idle" => exitStatus # "fail"
    /\ recon \in {"TimedOut", "Done", "Failed"} => exitStatus = "ok" /\ pc = "done"
    /\ (pc = "done" /\ args.BuildTrigger # "") => recon \in {"TimedOut", "Done", "Failed"}

C4_Witness ==
    /\ exitStatus = "ok"
    /\ recon = "Failed"
    /\ ~putResp.err /\ putResp.status = 500

\* C5: the reconciler moves Polling -> {Found, TimedOut} and Found ->
\* {Done, Failed}; it ends in Done exactly when the poll found the build, the
\* second GET brought a buildInfo object and the PUT answered 200, 201 or
\* 204; no fetch and no PUT after a timeout, no PUT after a failed fetch.
C5_ReconcilerStateMachine ==
    /\ [][\/ recon' = recon
          \/ recon = "Idle" /\ recon' = "Polling"
          \/ recon = "Polling" /\ recon' \in {"Found", "TimedOut"}
          \/ recon = "Found" /\ recon' \in {"Done", "Failed"}]_vars
    /\ [](pc = "done" =>
            (recon = "Done" <=>
                /\ lastCheck.sent /\ Matches(lastCheck.resp, args)
                /\ HasBuildInfo(fetched)
                /\ ~putResp.err /\ putResp.status \in {200, 201, 204}))
    /\ [](recon = "TimedOut" =>
            /\ ~HasOp("PUT")
            /\ GetCount = (IF lastCheck.sent THEN Len(sleeps) ELSE 0)
            /\ fetched = NoResp)
    /\ []((pc = "done" /\ recon = "Failed" /\ ~HasBuildInfo(fetched)) => ~HasOp("PUT"))
    /\ [](HasOp("PUT") => HasBuildInfo(fetched) /\ recon \in {"Done", "Failed"})

C5_Witness ==
    recon = "Done" /\ putResp.status = 204 /\ Len(sleeps) >= 1

\* the buildInfo object as the second GET's body spelled it
WireBuildInfo == fetched.body.v["buildInfo"].o

\* C6: the PUT's body is the second GET's buildInfo object with principal
\* set to the identity and every other field as received.
C6_PutBodyFrame ==
    \A i \in LogIdx :
        log[i].op = "PUT" =>
            /\ HasBuildInfo(fetched)
            /\ DOMAIN log[i].body = DOMAIN WireBuildInfo \cup {"principal"}
            /\ log[i].body["principal"] = JStr(args.BuildTrigger)
            /\ \A k \in DOMAIN WireBuildInfo \ {"principal"} :
                   log[i].body[k] = WireBuildInfo[k]

Rank(op) ==
    CASE op = "search" -> 1 [] op = "create" -> 2 [] op = "vcs" -> 3
      [] op = "publish" -> 4 [] op = "GET" -> 5 [] op = "PUT" -> 6

\* C7: the external actions happen in the order search, create, [vcs],
\* publish, [HTTP]; each needs the one before it to have succeeded; a failed
\* search, create or publish is the last thing the run does, and it ends
\* the run with a failure; HTTP needs a successful publish and a trigger.
C7_OrderedAndGated ==
    /\ \A i \in LogIdx : \A j \in LogIdx :
          i < j => /\ Rank(log[i].op) <= Rank(log[j].op)
                   /\ Rank(log[i].op) < 5 => Rank(log[i].op) < Rank(log[j].op)
    /\ \A i \in LogIdx :
          /\ log[i].op = "create" => i = 2 /\ log[1].op = "search" /\ log[1].ok
          /\ log[i].op = "vcs" => log[i-1].op = "create" /\ log[i-1].ok
          /\ log[i].op = "publish" =>
                /\ log[i-1].op \in {"create", "vcs"}
                /\ log[i-1].op = "create" => log[i-1].ok
          /\ IsHttp(log[i]) =>
                /\ args.BuildTrigger # ""
                /\ \E j \in 1..(i-1) : log[j].op = "publish" /\ log[j].ok
          /\ (log[i].op \in {"search", "create", "publish"} /\ ~log[i].ok) =>
                i = Len(log) /\ exitStatus = "fail"
    /\ log # <<>> => log[1].op = "search"
    /\ exitStatus = "fail" => ~ENABLED Next

C7_Witness ==
    /\ exitStatus = "fail"
    /\ Len(log) = 2
    /\ log[2].op = "create" /\ ~log[2].ok

\* C8: build-add-git runs exactly when repository URL and commit SHA are set
\* and branch or tag is; run, failed or skipped, publish comes next and the
\* exit status does not depend on it.
C8_VcsBestEffort ==
    LET wanted == /\ args.RepoURL # "" /\ args.CommitSha # ""
                  /\ ~(args.BranchName = "" /\ args.TagName = "")
    IN
    /\ HasOp("vcs") => wanted
    /\ pc \notin {"parse", "sanitize", "query", "search", "create", "vcs", "exited"} =>
          (HasOp("vcs") <=> wanted)
    /\ pc \notin {"parse", "sanitize", "query", "search", "create", "vcs", "publish",
                  "exited"} => HasOp("publish")
    /\ \A i \in LogIdx :
          /\ log[i].op = "vcs" =>
                /\ i = Len(log) => pc = "publish" /\ exitStatus = "running"
                /\ i < Len(log) => log[i+1].op = "publish"
          /\ log[i].op = "publish" =>
                (exitStatus = "fail" <=> ~log[i].ok)

C8_Witness ==
    /\ exitStatus = "ok"
    /\ \E i \in LogIdx : log[i].op = "vcs" /\ ~log[i].ok /\ log[i+1].op = "publish"
    /\ args.BranchName = ""

\* C9: on every request the Authorization header is: Bearer token if a token
\* is set; else Basic username:API key if both are set; else Basic
\* username:password if both are set; else the call is refused with "no
\* authentication method provided" and nothing is sent.
C9_HeaderPrecedence ==
    LET tok == args.AccessToken  user == args.Username
        pw == args.Password      key == args.APIKey
        sentHdrs == { log[i].hdr : i \in { j \in LogIdx : IsHttp(log[j]) } }
    IN
    /\ tok # "" => sentHdrs \subseteq { <<"Bearer", tok>> }
    /\ (tok = "" /\ user # "" /\ key # "") => sentHdrs \subseteq { <<"Basic", user, key>> }
    /\ (tok = "" /\ user # "" /\ key = "" /\ pw # "") =>
          sentHdrs \subseteq { <<"Basic", user, pw>> }
    /\ (tok = "" /\ (user = "" \/ (key = "" /\ pw = ""))) =>
          /\ sentHdrs = {}
          /\ lastCheck.result \in {"none", "no authentication method provided"}
          /\ ~lastCheck.sent
    /\ (tok # "" \/ (user # "" /\ (key # "" \/ pw # ""))) =>
          /\ lastCheck.result # "no authentication method provided"
          /\ pc \in {"sleep", "fetch", "put"} => lastCheck.sent /\ sentHdrs # {}

\* username, password and API key all set, no token: the API key is sent
C9_Witness ==
    /\ args.AccessToken = "" /\ args.Password # ""
    /\ \E i \in LogIdx : log[i].op = "PUT" /\ log[i].hdr = <<"Basic", "alice", "key">>

\* the credential a jfrog command line carries
cliMethod(argv) ==
    LET flag(name) == { i \in 1..Len(argv) : argv[i][1] = name } IN
    IF flag("--access-token") # {}
    THEN <<"token", argv[CHOOSE i \in flag("--access-token") : TRUE][2]>>
    ELSE IF flag("--user") # {} /\ flag("--password") # {}
    THEN <<"basic", argv[CHOOSE i \in flag("--user") : TRUE][2],
           argv[CHOOSE i \in flag("--password") : TRUE][2]>>
    ELSE <<"none">>

\* the credential an Authorization header carries
httpMethod(hdr) ==
    IF hdr = <<>> THEN <<"none">>
    ELSE IF hdr[1] = "Bearer" THEN <<"token", hdr[2]>>
    ELSE <<"basic", hdr[2], hdr[3]>>

\* C10: in one run the jfrog command lines and the HTTP requests carry the
\* same credential.
C10_SameMethodCliAndHttp ==
    \A i \in LogIdx : \A j \in LogIdx :
        (log[i].op \in {"search", "create", "publish"} /\ IsHttp(log[j])) =>
            cliMethod(log[i].argv) = httpMethod(log[j].hdr)

\* no access token, no username + password, no username + API key
NoAuthConfigured ==
    /\ args.AccessToken = ""
    /\ ~(args.Username # "" /\ args.Password # "")
    /\ ~(args.Username # "" /\ args.APIKey # "")

\* C11: with no authentication method configured the run fails before any
\* jfrog subprocess is launched and before any HTTP request is sent.
C11_NoAuthFailsEarly ==
    NoAuthConfigured => log = <<>> /\ exitStatus # "ok"

\* C12: with only the API key configured every jfrog command line carries
\* the API key.
C12_ApiKeyAloneCarried ==
    (/\ args.APIKey # "" /\ args.Username = ""
     /\ args.Password = "" /\ args.AccessToken = "") =>
        \A i \in LogIdx :
            log[i].op \in {"search", "create", "publish"} =>
                \E k \in 1..Len(log[i].argv) :
                    /\ Len(log[i].argv[k]) = 2
                    /\ log[i].argv[k][1] \in {"--apikey", "--password", "--access-token"}
                    /\ log[i].argv[k][2] = args.APIKey

----------------------------------------------------------------------------
(* The image reference *)

\* the text d cut at the first '/' (index 0: no '/')
FirstSlash(d) == stringsIndex(d, <<"/">>)
BeforeSlash(d) == IF FirstSlash(d) = 0 THEN d ELSE SubSeq(d, 1, FirstSlash(d) - 1)
AfterSlash(d) == IF FirstSlash(d) = 0 THEN <<>> ELSE SubSeq(d, FirstSlash(d) + 1, Len(d))

HasColon(d) == \E i \in 1..Len(d) : d[i] = ":"
LastColon(d) == CHOOSE i \in 1..Len(d) : d[i] = ":" /\ \A j \in (i+1)..Len(d) : d[j] # ":"
ImagePath(d) == SubSeq(d, 1, LastColon(d) - 1)
Dots(seg) == Cardinality({ i \in 1..Len(seg) : seg[i] = "." })

\* a colon, and at least two path segments before the last colon
WellFormedImage(d) == HasColon(d) /\ FirstSlash(ImagePath(d)) # 0

\* C13: for an image reference with a colon and at least two path segments,
\* the tag is the text after the last colon; if the first segment of the text
\* before it has two or more dots, the repository is the second segment and
\* the image name is what follows it; otherwise the repository is the first
\* segment and the image name is everything after it.
C13_ParseSplitsReference ==
    (/\ ret.fn \in {"parseDockerImage", "parseDockerImage0"}
     /\ WellFormedImage(ret.in)) =>
        LET d == ret.in
            rest == AfterSlash(ImagePath(d))
        IN  /\ ~ret.out.panic
            /\ ret.out.err = ""
            /\ ret.out.imageTag = SubSeq(d, LastColon(d) + 1, Len(d))
            /\ IF Dots(BeforeSlash(ImagePath(d))) >= 2
               THEN /\ ret.out.repo = BeforeSlash(rest)
                    /\ ret.out.imageName = AfterSlash(rest)
               ELSE /\ ret.out.repo = BeforeSlash(ImagePath(d))
                    /\ ret.out.imageName = rest

\* a registry host is discarded; repository, image name and tag are there
C13_Witness ==
    /\ ret.fn = "parseDockerImage"
    /\ WellFormedImage(ret.in)
    /\ Dots(BeforeSlash(ImagePath(ret.in))) >= 2
    /\ ret.out.repo = <<"a">>
    /\ ret.out.imageName = <<"a">>
    /\ ret.out.imageTag = <<"a">>

\* C14: with an image reference that has no colon, or fewer than two path
\* segments before its last colon, the run ends in failure with query.json
\* not written and no subprocess launched.
C14_BadImageFailsEarly ==
    ~WellFormedImage(args.DockerImage) =>
        /\ ~files.query.exists
        /\ log = <<>>
        /\ exitStatus # "ok"

----------------------------------------------------------------------------
(* The URL *)

\* u is "https:" "//" host path [query]: the host is not empty, nothing in u
\* is an invalid escape
HasSchemeAndHost(u) ==
    /\ Len(u) >= 4
    /\ SubSeq(u, 1, 3) = <<"https:", "/", "/">>
    /\ u[4] \notin {"/", "?q"}
    /\ \A i \in 1..Len(u) : u[i] # "%"
\* where the path of such a u begins (Len(u) + 1: the path is empty) and
\* where it ends
PathStart(u) ==
    LET at == { i \in 4..Len(u) : u[i] \in {"/", "?q"} } IN
    IF at = {} THEN Len(u) + 1 ELSE CHOOSE i \in at : \A j \in at : i <= j
PathEnd(u) ==
    LET at == { i \in 1..Len(u) : u[i] = "?q" } IN
    IF at = {} THEN Len(u) ELSE (CHOOSE i \in at : \A j \in at : i <= j) - 1
\* the places in the path of u where "/artifactory" begins
ArtifactoryAt(u) ==
    { i \in PathStart(u)..(PathEnd(u) - 1) : u[i] = "/" /\ u[i+1] = "artifactory" }
WithoutQuery(u) ==
    LET at == { i \in 1..Len(u) : u[i] = "?q" } IN
    IF at = {} THEN u ELSE SubSeq(u, 1, (CHOOSE i \in at : \A j \in at : i <= j) - 1)

RejectedURL(u) ==
    /\ \A i \in 1..Len(u) : u[i] # "%"
    /\ \/ ~HasSchemeAndHost(u)
       \/ ArtifactoryAt(u) = {}

\* C16: with a URL that has no scheme, no host or no "/artifactory" in its
\* path, the run ends in failure and no subprocess is launched.
C16_BadURLFailsEarly ==
    RejectedURL(args.URL) =>
        /\ log = <<>>
        /\ exitStatus # "ok"
        /\ sanitizedURL = <<>>

----------------------------------------------------------------------------
(* The search output *)

\* banner and log lines: text that is not JSON
LogLines == { line \in OutputLines : \E i \in 1..Len(line) : line[i] = "w" }

\* t read as the rest of a JSON array after its '[': record, then ']' or
\* ',' and more records
RECURSIVE RecordsOf(_)
RecordsOf(t) ==
    IF Len(t) >= 2 /\ t[1] \in Records /\ t[2] = "]" /\ Len(t) = 2
    THEN [is |-> TRUE, recs |-> <<t[1]>>]
    ELSE IF Len(t) >= 3 /\ t[1] \in Records /\ t[2] = ","
    THEN LET more == RecordsOf(SubSeq(t, 3, Len(t))) IN
         [is |-> more.is, recs |-> <<t[1]>> \o more.recs]
    ELSE [is |-> FALSE, recs |-> <<>>]
\* t read as a JSON array of result records
ArrayOf(t) ==
    IF t = <<"[", "]">> THEN [is |-> TRUE, recs |-> <<>>]
    ELSE IF t # <<>> /\ t[1] = "[" THEN RecordsOf(Tail(t))
    ELSE [is |-> FALSE, recs |-> <<>>]

\* output is k lines, each of them in banners, followed by a JSON array of
\* result records: what extractSha256FromOutput is to return
ExpectedAfter(output, k, banners) ==
    LET array == ArrayOf(joinLines(SubSeq(output, k + 1, Len(output)))) IN
    (/\ \A i \in 1..k : output[i] \in banners
     /\ array.is) =>
        IF array.recs = <<>>
        THEN ret.out = [err |-> "no artifacts found in JFrog output", sha256 |-> ""]
        ELSE ret.out = [err |-> "", sha256 |-> Sha256Of(array.recs[1])]

NoJSONError ==
    (\A i \in 1..Len(ret.in) : ret.in[i] = <<>> \/ ret.in[i][1] # "[") =>
        ret.out = [err |-> "could not find JSON output", sha256 |-> ""]

\* C17 as stated: after any banner and log lines, a JSON array of result
\* records gives the sha256 of its first record, or the empty-result error
\* when it is empty; with no line beginning with '[' the no-JSON error.
C17_ExtractAfterAnyBanner ==
    ret.fn = "extractSha256FromOutput" =>
        /\ \A k \in 0..Len(ret.in) : ExpectedAfter(ret.in, k, LogLines)
        /\ NoJSONError

\* C17, amended: the same for banner and log lines none of which begins
\* with '['.
C17_ExtractAfterPlainBanner ==
    ret.fn = "extractSha256FromOutput" =>
        /\ \A k \in 0..Len(ret.in) :
              ExpectedAfter(ret.in, k, { line \in LogLines : line[1] # "[" })
        /\ NoJSONError

\* a banner line, then an array of two records: the first one's digest
C17_Witness ==
    /\ ret.fn = "extractSha256FromOutput"
    /\ ret.in = << <<"w">>, <<"[", "{def456}", ",", "{abc123}", "]">> >>
    /\ ret.out = [err |-> "", sha256 |-> "def456"]

----------------------------------------------------------------------------
(* image_info.txt *)

\* C18: once build-docker-create has been launched, image_info.txt exists
\* and holds exactly <repository>/<image name>:<tag>@sha256:<digest>, from
\* the parsed reference and the digest the search gave.
C18_ImageFileBeforeCreate ==
    HasOp("create") =>
        /\ files.image.exists
        /\ files.image.content =
              ref.repo \o <<"/">> \o ref.imageName \o <<":">> \o ref.imageTag
                       \o <<"@sha256:", sha256>>
        /\ sha256 # ""

----------------------------------------------------------------------------
(* Termination *)

\* the backoff before attempt n + 1, and the time slept before it, when
\* every round trip takes no time
RECURSIVE BackoffAt(_)
BackoffAt(n) ==
    IF n = 1 THEN InitialBackoff
    ELSE IF 2 * BackoffAt(n - 1) > maxBackoff THEN maxBackoff
    ELSE 2 * BackoffAt(n - 1)
RECURSIVE SleptBefore(_)
SleptBefore(n) == IF n = 1 THEN 0 ELSE SleptBefore(n - 1) + BackoffAt(n - 1)
\* the attempts that can begin before the deadline
MaxPollAttempts ==
    Cardinality({ n \in 1..(PollTimeoutSecs + 1) : SleptBefore(n) < PollTimeoutSecs })

\* C19: every run ends; a reconciliation that has begun ends in TimedOut,
\* Done or Failed; the poll sends no more GETs than the attempts that fit
\* before the deadline (the GET after it is addPrincipalToBuildInfo's); no
\* poll attempt begins once the deadline has passed.
C19_RunTerminates ==
    /\ <>(pc \in {"done", "exited"})
    /\ (recon = "Polling") ~> (recon \in {"TimedOut", "Done", "Failed"})
    /\ [](/\ pc \in {"poll", "sleep"} => GetCount <= MaxPollAttempts
          /\ GetCount <= MaxPollAttempts + 1
          /\ Len(sleeps) <= MaxPollAttempts)
    /\ [][(pc = "poll" /\ pc' \in {"sleep", "fetch"}) => now < PollTimeoutSecs]_vars

\* a poll that used every attempt and timed out
C19_Witness ==
    /\ pc = "done"
    /\ recon = "TimedOut"
    /\ GetCount = MaxPollAttempts
    /\ Len(sleeps) = MaxPollAttempts

====
